---- MODULE Spec2Model ----
(***************************************************************************)
(* Model of scripts/extract-pdf.py: the per-page extraction loop of        *)
(* extract_pdf, the header/footer and element-type classifiers, and the    *)
(* command-line driver main.                                               *)
(*                                                                         *)
(* A text is a sequence of characters; a character is a one-character      *)
(* string.  Characters outside ASCII are written by name ("a_acute" is     *)
(* a-acute, "c_cedilla" is c-cedilla, "endash" is U+2013, "bullet" is      *)
(* U+2022, ...).  Regular expressions are syntax trees, matched by a       *)
(* position-set simulation that decides exactly whether a match exists.    *)
(***************************************************************************)
EXTENDS Integers, Sequences, FiniteSets, TLC

(***************************************************************************)
(* Bounds of the model.                                                    *)
(***************************************************************************)
MaxPages == 2

(***************************************************************************)
(* Python string primitives.                                               *)
(***************************************************************************)
Digits == {"0", "1", "2", "3", "4", "5", "6", "7", "8", "9"}

Whitespace == {" ", "\n", "\t", "\r", "\f"}

UpperLetters == <<"A", "B", "C", "D", "E", "F", "G", "H", "I", "J", "K", "L", "M", "N", "O", "P", "Q", "R", "S", "T", "U", "V", "W", "X", "Y", "Z", "A_acute", "E_circ", "O_circ", "C_cedilla">>

LowerLetters == <<"a", "b", "c", "d", "e", "f", "g", "h", "i", "j", "k", "l", "m", "n", "o", "p", "q", "r", "s", "t", "u", "v", "w", "x", "y", "z", "a_acute", "e_circ", "o_circ", "c_cedilla">>

LowerChar(c) ==
    IF \E i \in 1..Len(UpperLetters) : UpperLetters[i] = c
    THEN LowerLetters[CHOOSE i \in 1..Len(UpperLetters) : UpperLetters[i] = c]
    ELSE c

\* str.lower()
Lower(s) == [i \in 1..Len(s) |-> LowerChar(s[i])]

\* str.strip()
Strip(s) ==
    LET keep == {i \in 1..Len(s) : s[i] \notin Whitespace}
    IN  IF keep = {} THEN <<>>
        ELSE SubSeq(s, CHOOSE i \in keep : \A j \in keep : i <= j,
                       CHOOSE i \in keep : \A j \in keep : j <= i)

\* s[:n]
Take(s, n) == SubSeq(s, 1, IF Len(s) < n THEN Len(s) ELSE n)

\* str.startswith
StartsWith(s, w) == Len(w) <= Len(s) /\ SubSeq(s, 1, Len(w)) = w

\* w occurs in s
Contains(s, w) == \E i \in 1..(Len(s) - Len(w) + 1) : SubSeq(s, i, i + Len(w) - 1) = w

RECURSIVE SplitAt(_, _, _)
SplitAt(s, sep, from) ==
    LET hits == {i \in from..Len(s) : s[i] = sep}
    IN  IF hits = {} THEN <<SubSeq(s, from, Len(s))>>
        ELSE LET i == CHOOSE h \in hits : \A k \in hits : h <= k
             IN  <<SubSeq(s, from, i - 1)>> \o SplitAt(s, sep, i + 1)

\* str.split('\n')
SplitLines(s) == SplitAt(s, "\n", 1)

RECURSIVE JoinFrom(_, _, _)
JoinFrom(parts, sep, i) ==
    IF i > Len(parts) THEN <<>>
    ELSE IF i = Len(parts) THEN parts[i]
    ELSE parts[i] \o sep \o JoinFrom(parts, sep, i + 1)

\* sep.join(parts)
Join(parts, sep) == JoinFrom(parts, sep, 1)

(***************************************************************************)
(* Regular expressions (module re).  Step(re, s, P) is the set of          *)
(* positions at which a match of re can end when it starts at some         *)
(* position of P; position i is "before s[i]".                             *)
(***************************************************************************)
Chr(S) == <<"chr", S>>

Dot == <<"any">>

Cat(rs) == <<"cat", rs>>

Star(r) == <<"star", r>>

Plus(r) == <<"cat", <<r, <<"star", r>>>>>>

Opt(r) == <<"opt", r>>

Alt(r1, r2) == <<"alt", r1, r2>>

Bol == <<"bol">>

Eol == <<"eol">>

Lit(w) == <<"cat", [i \in 1..Len(w) |-> <<"chr", {w[i]}>>]>>

WS == Chr(Whitespace)

Digit == Chr(Digits)

RECURSIVE Step(_, _, _)
RECURSIVE StepCat(_, _, _, _)
RECURSIVE StepStar(_, _, _, _)
Step(re, s, P) ==
    IF P = {} THEN {}
    ELSE CASE re[1] = "chr"  -> {i + 1 : i \in {j \in P : j <= Len(s) /\ s[j] \in re[2]}}
           [] re[1] = "any"  -> {i + 1 : i \in {j \in P : j <= Len(s) /\ s[j] # "\n"}}
           [] re[1] = "cat"  -> StepCat(re[2], 1, s, P)
           [] re[1] = "star" -> StepStar(re[2], s, P, P)
           [] re[1] = "opt"  -> P \cup Step(re[2], s, P)
           [] re[1] = "alt"  -> Step(re[2], s, P) \cup Step(re[3], s, P)
           [] re[1] = "bol"  -> P \cap {1}
           [] re[1] = "eol"  -> {j \in P : j = Len(s) + 1 \/ (j = Len(s) /\ s[j] = "\n")}

StepCat(rs, k, s, P) ==
    IF k > Len(rs) \/ P = {} THEN P
    ELSE StepCat(rs, k + 1, s, Step(rs[k], s, P))

StepStar(r, s, frontier, acc) ==
    LET new == Step(r, s, frontier) \ acc
    IN  IF new = {} THEN acc ELSE StepStar(r, s, new, acc \cup new)

\* re.search(pattern, s) is not None
re_search(re, s) == Step(re, s, 1..(Len(s) + 1)) # {}

\* re.match(pattern, s) is not None
re_match(re, s) == Step(re, s, {1}) # {}

\* re.fullmatch(pattern, s) is not None
re_fullmatch(re, s) == (Len(s) + 1) \in Step(re, s, {1})

\* re.split(r'\n\s*\n', s): the leftmost separator, taken greedily, then the rest
BlankLines == Cat(<<Chr({"\n"}), Star(WS), Chr({"\n"})>>)

RECURSIVE re_split_from(_, _)
re_split_from(s, from) ==
    LET starts == {i \in from..Len(s) : Step(BlankLines, s, {i}) # {}}
    IN  IF starts = {} THEN <<SubSeq(s, from, Len(s))>>
        ELSE LET i    == CHOOSE h \in starts : \A k \in starts : h <= k
                 ends == Step(BlankLines, s, {i})
                 e    == CHOOSE h \in ends : \A k \in ends : k <= h
             IN  <<SubSeq(s, from, i - 1)>> \o re_split_from(s, e)

re_split(s) == re_split_from(s, 1)

(***************************************************************************)
(* is_page_header, is_page_footer.                                         *)
(***************************************************************************)
header_patterns == <<
    Cat(<<Bol, Lit(<<"p", "a_acute", "g", "i", "n", "a">>), Star(WS), Chr({"<"} \cup Digits)>>),
    Cat(<<Bol, Lit(<<"p", "a", "g", "e">>), Star(WS), Digit>>),
    Cat(<<Lit(<<"p", "a_acute", "g", "i", "n", "a">>), Star(WS), Chr({"<"}), Star(WS), Plus(Digit), Star(WS), Lit(<<"d", "e">>)>>),
    Lit(<<"a", "r", "c", "e", "l", "o", "r", "m", "i", "t", "t", "a", "l">>),
    Cat(<<Lit(<<"s", "a", "u_acute", "d", "e">>), Star(WS), Alt(Chr({"e"}), Chr({"&"})), Star(WS), Lit(<<"s", "e", "g", "u", "r", "a", "n", "c_cedilla", "a">>)>>),
    Cat(<<Lit(<<"a", "m">>), Star(WS), Lit(<<"s", "a", "f", "e", "t", "y">>), Star(WS), Lit(<<"s", "t">>)>>),
    Cat(<<Lit(<<"a", "m">>), Star(WS), Lit(<<"s", "e", "g", "u", "r", "a", "n", "c_cedilla", "a">>), Star(WS), Lit(<<"s", "t">>)>>),
    Cat(<<Lit(<<"i", "n", "s", "t", "r", "u", "c_cedilla", "o_tilde", "e", "s">>), Star(WS), Eol>>),
    Cat(<<Lit(<<"t", "e", "c", "h", "n", "o", "l", "o", "g", "y">>), Star(Dot), Lit(<<"h", "e", "a", "l", "t", "h">>)>>),
    Cat(<<Bol, Lit(<<"e", "s", "p", "a", "c_cedilla", "o", "s">>), Star(WS), Eol>>),
    Cat(<<Bol, Lit(<<"c", "o", "n", "f", "i", "n", "a", "d", "o", "s">>), Star(WS), Eol>>),
    Lit(<<"c", "o", "r", "p", "o", "r", "a", "t", "i", "v", "o">>),
    Cat(<<Lit(<<"c", "i", "r", "c", "u", "l", "a", "c_cedilla", "a_tilde", "o">>), Star(WS), Lit(<<"c", "o", "n", "t", "r", "o", "l", "a", "d", "a">>)>>) >>

\* y_position < page_height * 0.20 and y_position > page_height * 0.9 are compared
\* in hundredths, exactly; the positions used lie away from both thresholds
HeaderZonePercent == 20

DensityLines == 5

DensityMin == 3

MatchesHeaderPattern(line) ==
    \E k \in 1..Len(header_patterns) : re_search(header_patterns[k], line)

\* header_line_count after the loop over lines[:5]
header_line_count(text_lower) ==
    LET lines == Take(SplitLines(text_lower), DensityLines)
    IN  Cardinality({i \in 1..Len(lines) : MatchesHeaderPattern(Strip(lines[i]))})

\* is_page_header asking for one more matching line
is_page_header_density4(text, y_position, page_height) ==
    LET text_lower == Strip(Lower(text))
    IN  \/ /\ y_position * 100 < page_height * HeaderZonePercent
           /\ MatchesHeaderPattern(text_lower)
        \/ header_line_count(text_lower) >= DensityMin + 1

is_page_header(text, y_position, page_height) ==
    LET text_lower == Strip(Lower(text))
    IN  \/ /\ y_position * 100 < page_height * HeaderZonePercent
           /\ MatchesHeaderPattern(text_lower)
        \/ header_line_count(text_lower) >= DensityMin

footer_patterns == <<
    Cat(<<Bol, Plus(Digit), Star(WS), Eol>>),
    Cat(<<Bol, Lit(<<"p", "a_acute", "g", "i", "n", "a">>), Star(WS), Digit>>),
    Cat(<<Bol, Lit(<<"p", "a", "g", "e">>), Star(WS), Digit>>) >>

FooterZonePercent == 90

MatchesFooterPattern(text_lower) ==
    \E k \in 1..Len(footer_patterns) : re_search(footer_patterns[k], text_lower)

is_page_footer(text, y_position, page_height) ==
    /\ y_position * 100 > page_height * FooterZonePercent
    /\ MatchesFooterPattern(Strip(Lower(text)))

(***************************************************************************)
(* detect_element_type.                                                    *)
(***************************************************************************)
NumberedHeading ==
    Cat(<<Plus(Digit), Opt(Chr({"."})), Star(WS), Opt(Chr({"endash", "-", ":", "."})),
          Star(WS), Chr({UpperLetters[i] : i \in 1..Len(UpperLetters)})>>)

section_keywords == <<
    <<"e", "s", "c", "o", "p", "o">>, <<"d", "e", "f", "i", "n", "i", "c_cedilla", "o_tilde", "e", "s">>, <<"d", "e", "f", "i", "n", "i", "c", "o", "e", "s">>, <<"r", "e", "s", "p", "o", "n", "s", "a", "b", "i", "l", "i", "d", "a", "d", "e", "s">>,
    <<"p", "r", "o", "c", "e", "d", "i", "m", "e", "n", "t", "o", "s">>, <<"o", "b", "j", "e", "t", "i", "v", "o">>, <<"a", "n", "e", "x", "o">>, <<"a", "p", "e_circ", "n", "d", "i", "c", "e">>, <<"a", "p", "p", "e", "n", "d", "i", "c", "e">> >>

BulletItem ==
    Cat(<<Chr({"-", "bullet", "blackcircle", "whitecircle", "whitebullet", "blacksquare"}), Plus(WS)>>)

ThreeLevelNumber ==
    Cat(<<Plus(Digit), Chr({"."}), Plus(Digit), Chr({"."}), Plus(Digit), Opt(Chr({"."})), Plus(WS)>>)

TitleMaxNumbered == 100

TitleMaxKeyword == 80

StartsWithKeyword(text_lower) ==
    \E k \in 1..Len(section_keywords) : StartsWith(text_lower, section_keywords[k])

\* detect_element_type with the two length limits inclusive
detect_element_type_inclusive(text) ==
    LET text_stripped == Strip(text)
    IN  IF re_match(NumberedHeading, text_stripped) /\ Len(text_stripped) <= TitleMaxNumbered
        THEN "Title"
        ELSE IF StartsWithKeyword(Lower(text_stripped)) /\ Len(text_stripped) <= TitleMaxKeyword
        THEN "Title"
        ELSE IF re_match(BulletItem, text_stripped) THEN "ListItem"
        ELSE IF re_match(ThreeLevelNumber, text_stripped) THEN "ListItem"
        ELSE "NarrativeText"

detect_element_type(text) ==
    LET text_stripped == Strip(text)
    IN  IF re_match(NumberedHeading, text_stripped) /\ Len(text_stripped) < TitleMaxNumbered
        THEN "Title"
        ELSE IF StartsWithKeyword(Lower(text_stripped)) /\ Len(text_stripped) < TitleMaxKeyword
        THEN "Title"
        ELSE IF re_match(BulletItem, text_stripped) THEN "ListItem"
        ELSE IF re_match(ThreeLevelNumber, text_stripped) THEN "ListItem"
        ELSE "NarrativeText"

(***************************************************************************)
(* The pages pdfplumber hands to extract_pdf.  A page has a height, the    *)
(* table regions of find_tables() (a bounding box <<x0, top, x1, bottom>>  *)
(* and the grid extract() returns for it) and its text as blocks of        *)
(* characters: the text of the block, the position of its characters, and  *)
(* whether page.search() can locate a snippet of it.                       *)
(***************************************************************************)
\* the value None of a table cell; no text is equal to it
None == <<"None">>

Pad(s, n) == s \o [i \in 1..n |-> "x"]

Blk(text, x0, top) ==
    [text |-> text, x0 |-> x0, top |-> top, hasPos |-> TRUE, searchable |-> TRUE]

Unsearchable(b) == [b EXCEPT !.searchable = FALSE]

NoPos(b) == [b EXCEPT !.hasPos = FALSE]

Page(tables, blocks) == [height |-> 100, tables |-> tables, blocks |-> blocks]

R_AB == [bbox |-> <<10, 10, 50, 40>>, grid |-> <<<<<<"A">>, <<"B">>>>, <<<<"C">>, None>>>>]

R_Empty == [bbox |-> <<10, 50, 50, 80>>, grid |-> <<>>]

R_NoCells == [bbox |-> <<60, 10, 90, 40>>, grid |-> << <<>> >>]

R_Blank == [bbox |-> <<60, 50, 90, 80>>, grid |-> << <<<<"V", "a", "l", "v", "e">>, <<>>, None>> >>]

InAB == Blk(<<"A", " ", "B", " ", "C", " ", "c", "e", "l", "l", " ", "t", "e", "x", "t">>, 20, 20)

InEmpty == Blk(<<"V", "a", "l", "v", "e", " ", "s", "e", "a", "t", " ", "w", "o", "r", "n", ".">>, 20, 60)

Outside == Blk(<<"P", "u", "m", "p", " ", "l", "o", "g", " ", "f", "o", "l", "l", "o", "w", "s">>, 95, 45)

Scope == <<"1", ".", " ", "S", "c", "o", "p", "e">>

Valve == <<"-", " ", "c", "h", "e", "c", "k", " ", "v", "a", "l", "v", "e">>

Pump == <<"T", "h", "e", " ", "p", "u", "m", "p", " ", "f", "a", "i", "l", "e", "d", " ", "d", "u", "r", "i", "n", "g", " ", "t", "e", "s", "t", ".">>

Ok == <<"o", "k", ".">>

Corp == <<"C", "o", "r", "p", "o", "r", "a", "t", "i", "v", "o">>

Tech == <<"T", "e", "c", "h", "n", "o", "l", "o", "g", "y", " ", "a", "n", "d", " ", "H", "e", "a", "l", "t", "h">>

PageNo == <<"P", "a", "g", "e", " ", "7">>

PageNoLong == <<"p", "a", "g", "e", " ", "7", " ", "o", "f", " ", "t", "h", "e", " ", "p", "u", "m", "p", " ", "m", "a", "n", "u", "a", "l">>

Boiler == <<"A", "r", "c", "e", "l", "o", "r", "M", "i", "t", "t", "a", "l", "\n", " ", " ", "c", "o", "r", "p", "o", "r", "a", "t", "i", "v", "o", "\n", "P", "a", "g", "e", " ", "1", "\n", "r", "e", "v", "i", "s", "i", "o", "n", " ", "n", "o", "t", "e", "s", "\n", "i", "s", "s", "u", "e", "d", " ", "f", "o", "r", " ", "u", "s", "e">>

Boiler2 == <<"A", "r", "c", "e", "l", "o", "r", "M", "i", "t", "t", "a", "l", "\n", "r", "e", "v", "i", "s", "i", "o", "n", " ", "n", "o", "t", "e", "s", "\n", "P", "a", "g", "e", " ", "1", "\n", "i", "s", "s", "u", "e", "d", " ", "f", "o", "r", " ", "u", "s", "e">>

TextPages == {
    Page(<<>>, <<>>),
    Page(<<>>, <<Blk(Ok, 10, 50)>>),
    Page(<<>>, <<Blk(Corp, 10, 5)>>),
    Page(<<>>, <<Blk(Tech, 10, 5)>>),
    Page(<<>>, <<Unsearchable(Blk(Tech, 10, 5))>>),
    Page(<<>>, <<Blk(PageNo, 10, 95)>>),
    Page(<<>>, <<Blk(PageNoLong, 10, 95)>>),
    Page(<<>>, <<Blk(Boiler, 10, 50)>>),
    Page(<<>>, <<Unsearchable(Blk(Boiler, 10, 50))>>),
    Page(<<>>, <<Blk(Boiler2, 10, 50)>>),
    Page(<<>>, <<Blk(<<"1", ".", "2", ".", "3", " ", "V", "a", "l", "v", "e", " ", "s", "e", "a", "t">>, 10, 50)>>),
    Page(<<>>, <<Blk(<<"E", "s", "c", "o", "p", "o", " ", "d", "o", " ", "d", "o", "c", "u", "m", "e", "n", "t", "o">>, 10, 50)>>),
    Page(<<>>, <<Blk(Pad(<<"e", "s", "c", "o", "p", "o", " ">>, 73), 10, 50)>>),
    Page(<<>>, <<Blk(Pad(<<"1", ".", " ", "A">>, 96), 10, 50)>>),
    Page(<<>>, <<Blk(Scope, 10, 25), Blk(Pump, 10, 40), Blk(Valve, 10, 60)>>),
    Page(<<>>, <<Blk(<<" ", " ", "I", "n", "t", "r", "o", " ", "t", "e", "x", "t", " ", "h", "e", "r", "e", " ", "\n", " ", "\n", "\n", " ", "o", "k", ".", " ", "\n", "\n", "bullet", " ", "w", "e", "l", "d", " ", "s", "e", "a", "m">>, 10, 50)>>) }

TablePages == {
    Page(<<R_AB>>, <<InAB, Outside>>),
    Page(<<R_Empty>>, <<InEmpty, Outside>>),
    Page(<<R_NoCells>>, <<Outside>>),
    Page(<<R_AB, R_Empty, R_Blank>>, <<InAB, InEmpty, Outside>>),
    Page(<<R_Blank, R_AB>>, <<Outside>>),
    Page(<<R_AB>>, <<NoPos(InAB)>>) }

Pages == TextPages \cup TablePages

(***************************************************************************)
(* extract_pdf: the body of the loop over pdf.pages.                       *)
(***************************************************************************)
\* str(cell)
CellTextNoGuard(cell) == IF cell = None THEN <<"N", "o", "n", "e">> ELSE cell

\* str(cell) if cell else ""
CellText(cell) == IF cell = None \/ cell = <<>> THEN <<>> ELSE cell

table_text(table_data) ==
    Join([r \in 1..Len(table_data) |->
            Join([c \in 1..Len(table_data[r]) |-> CellText(table_data[r][c])], <<" ", "|", " ">>)],
         <<"\n">>)

TableElement(table_data, page_num) ==
    [type |-> "Table", text |-> table_text(table_data), page |-> page_num,
     rows |-> Len(table_data),
     cols |-> IF table_data # <<>> THEN Len(table_data[1]) ELSE 0]

\* the indices of a sequence that satisfy Test, in ascending order
Indices(n, Test(_)) == SelectSeq([i \in 1..n |-> i], Test)

\* the elements appended by the loop over tables, each with the region it came from
TableItems(page, page_num) ==
    LET idx == Indices(Len(page.tables), LAMBDA i : page.tables[i].grid # <<>>)
    IN  [k \in 1..Len(idx) |->
            [elem   |-> TableElement(page.tables[idx[k]].grid, page_num),
             origin |-> <<page_num, "table", idx[k]>>]]

table_bboxes(page) == [i \in 1..Len(page.tables) |-> page.tables[i].bbox]

InBox(obj, bbox) ==
    /\ bbox[1] <= obj.x0 /\ obj.x0 <= bbox[3]
    /\ bbox[2] <= obj.top /\ obj.top <= bbox[4]

\* page.filter(...): the blocks outside every table bounding box
text_outside_tables(page) ==
    LET bboxes == table_bboxes(page)
    IN  SelectSeq(page.blocks,
                  LAMBDA obj : IF obj.hasPos
                               THEN ~ \E i \in 1..Len(bboxes) : InBox(obj, bboxes[i])
                               ELSE TRUE)

\* extract_text(layout=True) or "": the blocks, a blank line between two of them
extract_text(blocks) == Join([i \in 1..Len(blocks) |-> blocks[i].text], <<"\n", "\n">>)

\* page.search(snippet): the tops of the occurrences found, in page order
page_search(page, snippet) ==
    LET hits == SelectSeq(page.blocks, LAMBDA b : b.searchable /\ Contains(b.text, snippet))
    IN  [i \in 1..Len(hits) |-> hits[i].top]

MinParaLen == 5

SnippetLen == 20

y_pos(page, para) ==
    LET first_char == IF Len(para) >= SnippetLen
                      THEN page_search(page, Take(para, SnippetLen))
                      ELSE <<>>
    IN  IF first_char # <<>> THEN first_char[1] ELSE page.height \div 2

\* not para or len(para) < 3
TooShortBelow3(para) == para = <<>> \/ Len(para) < 3

\* not para or len(para) < 5
TooShort(para) == para = <<>> \/ Len(para) < MinParaLen

\* what the loop body does with one paragraph
Disposition(page, para) ==
    IF TooShort(para) THEN "short"
    ELSE IF is_page_header(para, y_pos(page, para), page.height) THEN "header"
    ELSE IF is_page_footer(para, y_pos(page, para), page.height) THEN "footer"
    ELSE "element"

\* the paragraphs of the page in the order of the loop, each with the position
\* looked up for it (-1: never looked up) and its outcome
Paragraphs(page) ==
    LET paragraphs == re_split(extract_text(text_outside_tables(page)))
    IN  [j \in 1..Len(paragraphs) |->
            LET para == Strip(paragraphs[j])
            IN  [text  |-> para,
                 y_pos |-> IF TooShort(para) THEN -1 ELSE y_pos(page, para),
                 disp  |-> Disposition(page, para)]]

TextItems(page, page_num) ==
    LET paras == Paragraphs(page)
        idx   == Indices(Len(paras), LAMBDA j : paras[j].disp = "element")
    IN  [k \in 1..Len(idx) |->
            [elem   |-> [type |-> detect_element_type(paras[idx[k]].text),
                         text |-> paras[idx[k]].text, page |-> page_num],
             origin |-> <<page_num, "text", idx[k]>>]]

\* the same elements, the paragraphs ahead of the tables
PageItemsTextFirst(page, page_num) == TextItems(page, page_num) \o TableItems(page, page_num)

\* everything one iteration of the loop over pdf.pages appends to elements
PageItems(page, page_num) == TableItems(page, page_num) \o TextItems(page, page_num)

\* tables_found.append(page_num), once for a page that has a Table element
PageTablesFoundOncePerPage(page, page_num) ==
    IF Len(TableItems(page, page_num)) > 0 THEN <<page_num>> ELSE <<>>

\* tables_found.append(page_num), once for each Table element of the page
PageTablesFound(page, page_num) ==
    [k \in 1..Len(TableItems(page, page_num)) |-> page_num]

\* the dict extract_pdf returns (filename and filepath, which echo the argument, are left out)
Result(elems, found, pages) ==
    [pages |-> pages, element_count |-> Len(elems), tables_found |-> Len(found),
     elements |-> elems]

(***************************************************************************)
(* The state of one run of main().                                         *)
(*   pc            where main is: "start", "loop" (inside extract_pdf's    *)
(*                 loop over pdf.pages), "returned", "exit"                *)
(*   page_count    len(pdf.pages)                                          *)
(*   doc           the pages the loop has processed so far, in order       *)
(*   elements, tables_found   the two lists of extract_pdf                 *)
(*   origin        for each element, the page, the loop ("table" or        *)
(*                 "text") and the index of the region or paragraph that   *)
(*                 produced it (history)                                   *)
(*   log           for each processed page, the exclusion boxes given to   *)
(*                 page.filter, the blocks that passed it and the          *)
(*                 paragraphs with their outcomes (history)                *)
(*   result        the value returned by extract_pdf, once it has returned *)
(*   out_file, out_stdout   the JSON documents written to --output and to  *)
(*                 standard output                                         *)
(*   stderr        the diagnostics printed                                 *)
(*   exit_code     the exit code of the process, -1 while it runs          *)
(***************************************************************************)
VARIABLES pc, page_count, doc, elements, tables_found, origin, log, result,
          out_file, out_stdout, stderr, exit_code

vars == <<pc, page_count, doc, elements, tables_found, origin, log, result,
          out_file, out_stdout, stderr, exit_code>>

Init ==
    /\ pc = "start"
    /\ page_count = 0
    /\ doc = <<>>
    /\ elements = <<>>
    /\ tables_found = <<>>
    /\ origin = <<>>
    /\ log = <<>>
    /\ result = <<>>
    /\ out_file = <<>>
    /\ out_stdout = <<>>
    /\ stderr = <<>>
    /\ exit_code = -1

\* except FileNotFoundError / except Exception: print the diagnostic, sys.exit(1)
Fail(diagnostic) ==
    /\ pc' = "exit"
    /\ stderr' = Append(stderr, diagnostic)
    /\ exit_code' = 1
    /\ UNCHANGED <<page_count, doc, elements, tables_found, origin, log, result,
                   out_file, out_stdout>>

\* the path does not exist: extract_pdf raises FileNotFoundError
FileNotFound ==
    /\ pc = "start"
    /\ Fail("Error: File not found")

\* pdfplumber.open raises
OpenFails ==
    /\ pc = "start"
    /\ Fail("Error extracting PDF")

\* pdfplumber.open succeeds on a document of n pages
Open(n) ==
    /\ pc = "start"
    /\ pc' = "loop"
    /\ page_count' = n
    /\ UNCHANGED <<doc, elements, tables_found, origin, log, result,
                   out_file, out_stdout, stderr, exit_code>>

\* one iteration of the loop over pdf.pages
ProcessPage(page) ==
    /\ pc = "loop"
    /\ Len(doc) < page_count
    /\ LET page_num == Len(doc) + 1
           items    == PageItems(page, page_num)
       IN  /\ elements' = elements \o [i \in 1..Len(items) |-> items[i].elem]
           /\ origin' = origin \o [i \in 1..Len(items) |-> items[i].origin]
           /\ tables_found' = tables_found \o PageTablesFound(page, page_num)
           /\ log' = Append(log, [bboxes     |-> table_bboxes(page),
                                  kept       |-> text_outside_tables(page),
                                  paragraphs |-> Paragraphs(page)])
    /\ doc' = Append(doc, page)
    /\ UNCHANGED <<pc, page_count, result, out_file, out_stdout, stderr, exit_code>>

\* a call on the next page raises, the elements so far having been printed
PageFailsAfterPartialDump ==
    /\ pc = "loop"
    /\ Len(doc) < page_count
    /\ pc' = "exit"
    /\ out_stdout' = Append(out_stdout, Result(elements, tables_found, page_count))
    /\ stderr' = Append(stderr, "Error extracting PDF")
    /\ exit_code' = 1
    /\ UNCHANGED <<page_count, doc, elements, tables_found, origin, log, result, out_file>>

\* a call on the next page raises (find_tables, extract, extract_text, search)
PageFails ==
    /\ pc = "loop"
    /\ Len(doc) < page_count
    /\ Fail("Error extracting PDF")

\* the loop is over: extract_pdf returns its dict
Return ==
    /\ pc = "loop"
    /\ Len(doc) = page_count
    /\ pc' = "returned"
    /\ result' = <<Result(elements, tables_found, page_count)>>
    /\ UNCHANGED <<page_count, doc, elements, tables_found, origin, log,
                   out_file, out_stdout, stderr, exit_code>>

\* --output given: Path(args.output).write_text(json_output), then the summary line
WriteFile ==
    /\ pc = "returned"
    /\ pc' = "exit"
    /\ out_file' = Append(out_file, result[1])
    /\ stderr' = Append(stderr, "Extracted elements")
    /\ exit_code' = 0
    /\ UNCHANGED <<page_count, doc, elements, tables_found, origin, log, result, out_stdout>>

\* --output given, and the file cannot be opened for writing
WriteFileFails ==
    /\ pc = "returned"
    /\ Fail("Error extracting PDF")

\* no --output: print(json_output)
PrintStdout ==
    /\ pc = "returned"
    /\ pc' = "exit"
    /\ out_stdout' = Append(out_stdout, result[1])
    /\ exit_code' = 0
    /\ UNCHANGED <<page_count, doc, elements, tables_found, origin, log, result,
                   out_file, stderr>>

Next ==
    \/ FileNotFound
    \/ OpenFails
    \/ \E n \in 0..MaxPages : Open(n)
    \/ \E page \in Pages : ProcessPage(page)
    \/ PageFails
    \/ Return
    \/ WriteFile
    \/ WriteFileFails
    \/ PrintStdout

Spec == Init /\ [][Next]_vars

(***************************************************************************)
(* Vocabulary of the properties.                                           *)
(***************************************************************************)
\* the element, if any, that region or paragraph idx of page k produced
Produced(k, loop, idx) == {i \in 1..Len(origin) : origin[i] = <<k, loop, idx>>}

\* origin o1 is detected before origin o2 on the same page
DetectedBefore(o1, o2) ==
    \/ o1[2] = "table" /\ o2[2] = "text"
    \/ o1[2] = o2[2] /\ o1[3] < o2[3]

\* where the paragraph first occurs on its page, <<>> if nowhere page.search can see
FirstOccurrence(page, text) == page_search(page, Take(text, SnippetLen))

\* the text is, as a whole, one match of some header pattern
SolelyHeader(text) ==
    \E k \in 1..Len(header_patterns) : re_fullmatch(header_patterns[k], Strip(Lower(text)))

\* how many of the first five lines match a header pattern
HeaderLines(text) ==
    LET lines == SplitLines(Strip(Lower(text)))
    IN  Cardinality({l \in 1..Len(lines) : l <= 5 /\ MatchesHeaderPattern(Strip(lines[l]))})

TitleRule(t) ==
    \/ re_match(NumberedHeading, t) /\ Len(t) < 100
    \/ StartsWithKeyword(Lower(t)) /\ Len(t) < 80

ListItemRule(t) == re_match(BulletItem, t) \/ re_match(ThreeLevelNumber, t)

TablesIn(elems) == {i \in 1..Len(elems) : elems[i].type = "Table"}

Written == out_file \o out_stdout

(***************************************************************************)
(* C1: elements is sorted by non-decreasing page, and within a page the    *)
(* Table elements come first, in the order their regions were detected,    *)
(* followed by the text elements in paragraph order; every element is the  *)
(* table or paragraph its origin names.                                    *)
(***************************************************************************)
C1_DetectionOrder ==
    /\ Len(origin) = Len(elements)
    /\ \A i \in 1..Len(elements) :
          /\ elements[i].page = origin[i][1]
          /\ (elements[i].type = "Table") <=> (origin[i][2] = "table")
          /\ origin[i][2] = "text" =>
                elements[i].text = log[origin[i][1]].paragraphs[origin[i][3]].text
    /\ \A i, j \in 1..Len(elements) :
          i < j => /\ elements[i].page <= elements[j].page
                   /\ elements[i].page = elements[j].page => DetectedBefore(origin[i], origin[j])

C1_Witness ==
    /\ \E i \in 1..Len(elements) : elements[i].page = 2
    /\ \E i, j, k \in 1..Len(elements) :
          /\ i < j /\ j < k
          /\ elements[i].page = 1 /\ elements[j].page = 1 /\ elements[k].page = 1
          /\ elements[i].type = "Table" /\ elements[j].type = "Table"
          /\ elements[k].type = "NarrativeText"

(***************************************************************************)
(* C2: a paragraph of at least 5 characters that is solely a match of a    *)
(* header pattern and first occurs on its page above 20% of the page       *)
(* height is never emitted as an element.                                  *)
(***************************************************************************)
C2_HeaderAtTopNeverEmitted ==
    \A k \in 1..Len(log) : \A j \in 1..Len(log[k].paragraphs) :
        LET para == log[k].paragraphs[j].text
            seen == FirstOccurrence(doc[k], para)
        IN  ( /\ Len(para) >= 5
              /\ SolelyHeader(para)
              /\ seen # <<>>
              /\ seen[1] * 100 < doc[k].height * 20 )
            => Produced(k, "text", j) = {}

(***************************************************************************)
(* C3: a table region whose grid is empty produces no Table element and    *)
(* registers no exclusion box: text inside its bounding box (and inside    *)
(* no other region's) passes the table-region filter.                      *)
(***************************************************************************)
C3_EmptyGridNoExclusion ==
    \A k \in 1..Len(doc) : \A i \in 1..Len(doc[k].tables) :
        doc[k].tables[i].grid = <<>> =>
            /\ Produced(k, "table", i) = {}
            /\ \A b \in 1..Len(doc[k].blocks) :
                  LET obj == doc[k].blocks[b]
                  IN  ( /\ InBox(obj, doc[k].tables[i].bbox)
                        /\ \A o \in 1..Len(doc[k].tables) :
                              doc[k].tables[o].grid # <<>> => ~ InBox(obj, doc[k].tables[o].bbox) )
                      => \E n \in 1..Len(log[k].kept) : log[k].kept[n] = obj

(***************************************************************************)
(* C4: a paragraph that lies below 90% of the page height and whose        *)
(* case-folded text matches a footer pattern is never emitted as an        *)
(* element, whatever its length.                                           *)
(***************************************************************************)
C4_FooterNeverEmitted ==
    \A k \in 1..Len(log) : \A j \in 1..Len(log[k].paragraphs) :
        LET para == log[k].paragraphs[j].text
            seen == FirstOccurrence(doc[k], para)
        IN  ( /\ para # <<>>
              /\ MatchesFooterPattern(Strip(Lower(para)))
              /\ seen # <<>>
              /\ seen[1] * 100 > doc[k].height * 90 )
            => Produced(k, "text", j) = {}

(***************************************************************************)
(* C5: a paragraph with at least 3 of its first 5 lines matching a header  *)
(* pattern is never emitted as an element, wherever it lies on the page    *)
(* and whether or not its position was resolved.                           *)
(***************************************************************************)
C5_DensityRule ==
    \A k \in 1..Len(log) : \A j \in 1..Len(log[k].paragraphs) :
        HeaderLines(log[k].paragraphs[j].text) >= 3 => Produced(k, "text", j) = {}

C5_Witness ==
    /\ \E k \in 1..Len(log) : \E j \in 1..Len(log[k].paragraphs) :
          /\ HeaderLines(log[k].paragraphs[j].text) >= 3
          /\ FirstOccurrence(doc[k], log[k].paragraphs[j].text) = <<>>
          /\ log[k].paragraphs[j].y_pos * 2 = doc[k].height
          /\ log[k].paragraphs[j].disp = "header"
    /\ \E k \in 1..Len(log) : \E j \in 1..Len(log[k].paragraphs) :
          /\ HeaderLines(log[k].paragraphs[j].text) >= 3
          /\ FirstOccurrence(doc[k], log[k].paragraphs[j].text) # <<>>
          /\ log[k].paragraphs[j].y_pos * 2 = doc[k].height
          /\ log[k].paragraphs[j].disp = "header"

(***************************************************************************)
(* C6: tables_found counts the Table elements (not the pages that have a   *)
(* table) and element_count is the length of elements, in the running      *)
(* lists, in the returned result and in the JSON written.                  *)
(***************************************************************************)
C6_Counts ==
    /\ Len(tables_found) = Cardinality(TablesIn(elements))
    /\ \A n \in 1..Len(result) :
          /\ result[n].tables_found = Cardinality(TablesIn(result[n].elements))
          /\ result[n].element_count = Len(result[n].elements)
          /\ result[n].elements = elements
    /\ \A n \in 1..Len(Written) : Written[n] = result[1]

C6_Witness ==
    /\ result # <<>>
    /\ result[1].tables_found = 2
    /\ \A i \in TablesIn(result[1].elements) : result[1].elements[i].page = 1
    /\ result[1].element_count > 2

(***************************************************************************)
(* C7: a run that fails (path not found, or a failure on any page) exits   *)
(* with code 1 and has written no JSON; JSON is written at most once,      *)
(* only after every page was processed, and exactly then the exit code     *)
(* is 0.                                                                   *)
(***************************************************************************)
C7_ExitCodeAndOutput ==
    /\ Len(Written) <= 1
    /\ exit_code = 1 => Written = <<>>
    /\ exit_code = 0 <=> Len(Written) = 1
    /\ Written # <<>> => /\ Len(doc) = page_count
                         /\ result # <<>>
                         /\ Written[1].pages = Len(doc)
    /\ (pc = "exit") <=> (exit_code \in {0, 1})
    /\ (\E n \in 1..Len(stderr) : stderr[n] \in {"Error: File not found", "Error extracting PDF"})
          <=> exit_code = 1

C7_Witness ==
    /\ exit_code = 1
    /\ Len(doc) = 1 /\ page_count = 2
    /\ elements # <<>>
    /\ Written = <<>>

(***************************************************************************)
(* C8: a paragraph shorter than 5 characters after trimming produces no    *)
(* element, so every non-table element has a text of at least 5            *)
(* characters and the text elements of a page are exactly its paragraphs   *)
(* that were kept.                                                         *)
(***************************************************************************)
C8_MinimumLength ==
    /\ \A i \in 1..Len(elements) : elements[i].type # "Table" => Len(elements[i].text) >= 5
    /\ \A k \in 1..Len(log) : \A j \in 1..Len(log[k].paragraphs) :
          /\ Len(log[k].paragraphs[j].text) < 5 => Produced(k, "text", j) = {}
          /\ Cardinality(Produced(k, "text", j)) =
                IF log[k].paragraphs[j].disp = "element" THEN 1 ELSE 0

C8_Witness ==
    \E k \in 1..Len(log) : \E j \in 1..Len(log[k].paragraphs) :
        /\ log[k].paragraphs[j].text = Ok
        /\ log[k].paragraphs[j].disp = "short"
        /\ Produced(k, "text", j) = {}
        /\ Produced(k, "text", j + 1) # {}

(***************************************************************************)
(* C9: the type of a text element is decided by its text alone: Title if   *)
(* the numbered-heading pattern matches and the length is below 100, or    *)
(* the case-folded text starts with a section keyword and the length is    *)
(* below 80; otherwise ListItem if it starts with a bullet and whitespace  *)
(* or with three-level numbering; otherwise NarrativeText.                 *)
(***************************************************************************)
C9_ElementType ==
    \A i \in 1..Len(elements) :
        elements[i].type # "Table" =>
            LET t == elements[i].text
            IN  /\ elements[i].type =
                      IF TitleRule(t) THEN "Title"
                      ELSE IF ListItemRule(t) THEN "ListItem"
                      ELSE "NarrativeText"
                /\ t = Scope => elements[i].type = "Title"
                /\ t = Valve => elements[i].type = "ListItem"
                /\ t = Pump => elements[i].type = "NarrativeText"

C9_Witness ==
    /\ \E i \in 1..Len(elements) : elements[i].text = Scope /\ elements[i].type = "Title"
    /\ \E i \in 1..Len(elements) : elements[i].text = Valve /\ elements[i].type = "ListItem"
    /\ \E i \in 1..Len(elements) : elements[i].text = Pump /\ elements[i].type = "NarrativeText"
    /\ \E i \in 1..Len(elements) :
          /\ re_match(NumberedHeading, elements[i].text)
          /\ Len(elements[i].text) = 100
          /\ elements[i].type = "NarrativeText"

(***************************************************************************)
(* C10 as stated: a region with at least one non-empty row produces        *)
(* exactly one Table element (rows joined by newline, cells by " | ",      *)
(* None as the empty string; rows and cols the grid's dimensions), and a   *)
(* region whose grid has no non-empty row produces no Table element.       *)
(***************************************************************************)
RendersRegion(k, i) ==
    LET grid == doc[k].tables[i].grid
    IN  /\ Cardinality(Produced(k, "table", i)) = 1
        /\ \A e \in Produced(k, "table", i) :
              /\ elements[e].type = "Table"
              /\ elements[e].text = table_text(grid)
              /\ elements[e].rows = Len(grid)
              /\ elements[e].cols = Len(grid[1])
              /\ grid = R_AB.grid =>
                    /\ elements[e].text = <<"A", " ", "|", " ", "B", "\n", "C", " ", "|", " ">>
                    /\ elements[e].rows = 2 /\ elements[e].cols = 2
              /\ grid = R_Blank.grid => elements[e].text = <<"V", "a", "l", "v", "e", " ", "|", " ", " ", "|", " ">>

C10_AsStated ==
    \A k \in 1..Len(doc) : \A i \in 1..Len(doc[k].tables) :
        LET grid == doc[k].tables[i].grid
        IN  IF \E r \in 1..Len(grid) : grid[r] # <<>>
            THEN RendersRegion(k, i)
            ELSE Produced(k, "table", i) = {}

(***************************************************************************)
(* C10 amended: a region whose grid has at least one row, with or without  *)
(* cells, produces exactly one Table element rendered as above; a region   *)
(* whose grid has no rows produces none.                                   *)
(***************************************************************************)
C10_Amended ==
    \A k \in 1..Len(doc) : \A i \in 1..Len(doc[k].tables) :
        LET grid == doc[k].tables[i].grid
        IN  IF grid # <<>>
            THEN RendersRegion(k, i)
            ELSE Produced(k, "table", i) = {}

C10_Witness ==
    /\ \E k \in 1..Len(doc) : \E i \in 1..Len(doc[k].tables) :
          /\ doc[k].tables[i].grid = R_AB.grid
          /\ \E e \in Produced(k, "table", i) : elements[e].text = <<"A", " ", "|", " ", "B", "\n", "C", " ", "|", " ">>
    /\ \E k \in 1..Len(doc) : \E i \in 1..Len(doc[k].tables) :
          /\ doc[k].tables[i].grid = R_NoCells.grid
          /\ \E e \in Produced(k, "table", i) : elements[e].text = <<>> /\ elements[e].cols = 0
    /\ \E k \in 1..Len(doc) : \E i \in 1..Len(doc[k].tables) :
          /\ doc[k].tables[i].grid = <<>>
          /\ Produced(k, "table", i) = {}
====
